---- MODULE Spec2Model ----
(***************************************************************************)
(* Token-authenticated HTTP client (lib/config.ts: the axios instance      *)
(* `api` with its request and response interceptors), the flows that       *)
(* write the Token Store (sign-in, logout) and the Route Guard             *)
(* (middleware.ts).                                                        *)
(*                                                                         *)
(* Optional JavaScript values (null / undefined against a value) are       *)
(* sequences of length 0 or 1: <<>> is null/undefined, <<v>> is v.         *)
(* Storage and header maps are functions whose domain is the set of keys   *)
(* that are present.                                                       *)
(***************************************************************************)
EXTENDS Integers, Sequences, FiniteSets, TLC

\* ---------------------------------------------------------------- bounds
MaxRequests == 2

Ids == 1..MaxRequests

\* Token strings a backend may hand out or a profile may hold; the empty
\* string is a string like any other for localStorage and for a cookie.
Tokens == {"", "abc"}

\* ------------------------------------------------------------ JS helpers
None == <<>>
Some(v) == <<v>>

\* JavaScript truthiness of an optional string: null, undefined and ''
\* are falsy, every other string is truthy.
Truthy(opt) == opt # None /\ opt[1] # ""

\* Storage.getItem(key): the stored string, or null.
getItem(storage, key) == IF key \in DOMAIN storage THEN Some(storage[key]) ELSE None

\* Storage.setItem(key, value).
setItem(storage, key, value) ==
    [k \in (DOMAIN storage) \cup {key} |-> IF k = key THEN value ELSE storage[k]]

\* Storage.removeItem(key).
removeItem(storage, key) == [k \in (DOMAIN storage) \ {key} |-> storage[k]]

\* String(value) as setItem applies it to its argument: undefined is stored
\* as the string 'undefined'.
ToStorageString(opt) == IF opt = None THEN "undefined" ELSE opt[1]

EmptyStorage == [k \in {} |-> ""]
NoHeaders == [k \in {} |-> ""]

\* ----------------------------------------------------------------- paths
\* Paths are sequences of characters, so that String.startsWith is computed
\* character by character.
SIGN_IN_UnderDashboard == <<"/", "d", "a", "s", "h", "b", "o", "a", "r", "d", "/", "i", "n">>

SIGN_IN == <<"/", "s", "i", "g", "n", "_", "i", "n">>
DASHBOARD == <<"/", "d", "a", "s", "h", "b", "o", "a", "r", "d">>

\* ------------------------------------------------- objects of the client
\* What the transport or the runtime produces for request i.  status 0
\* stands for "no response" (error.response is undefined).
NoObj == [kind |-> "none", id |-> 0, status |-> 0, token |-> None]
Response(i, s, tok) == [kind |-> "response", id |-> i, status |-> s, token |-> tok]
AxiosError(i, s) == [kind |-> "AxiosError", id |-> i, status |-> s, token |-> None]
ReferenceError(i) == [kind |-> "ReferenceError", id |-> i, status |-> 0, token |-> None]

SuccessStatuses == {200}
ErrorStatuses == {401, 500}
NetworkFailure == 0

\* Who calls the client: a data component (UserProfile, useApiCall, ...),
\* or one of the two sign-in forms that post to /auth/login through it.
LoginCallers == {"SignIn.handleSubmit", "LoginForm.handleLogin"}

\* The useSignIn hook posts to /auth/login with the bare axios import, not
\* with `api`: its request passes no interceptor.
HookCallers == {"useSignIn.signIn"}
SignInCallers == LoginCallers \cup HookCallers

Callers == {"component"} \cup SignInCallers

VARIABLES
    isClient,       \* typeof window !== 'undefined' in this execution context
    localStorage,   \* the browser's localStorage (meaningless on the server)
    req,            \* the calls made through `api`, by id: where each is
                    \* (pc), the headers of the outgoing request while it
                    \* is on its way, what the transport produced (raw) and
                    \* how the caller's promise settled (how, value)
    location,       \* the path the browser was last told to go to, if any
    redirects,      \* how many times the client has executed line 118
    unauthorized,   \* how many 401 responses the client has handled
    guard,          \* the page request the middleware decided last
    cookieJar,      \* the browser's cookies for the application's origin
    ended           \* what has ended the session since the last sign-in stored
                    \* a token: a subset of {"logout", "401"}

\* The state of the parts of the application that run beside the client:
\* each is exercised by a specification of its own.
VARIABLES
    page,           \* the server component DashboardPage rendering a request
    hook,           \* the state of a component that uses useSignIn
    env,            \* process.env.NEXT_PUBLIC_APP_ENV, if set
    dbg,            \* lib/debugger.ts: the module, the DebugConsole objects
                    \* and what the last call of a debug utility did
    panel,          \* console.log and the DebugPanel components that wrap it
    cfg             \* lib/config.ts as a module: the exported config once it
                    \* is evaluated, what the banner shows, the last logger call

clientVars == <<isClient, localStorage, req, location, redirects, unauthorized,
                guard, cookieJar, ended>>

aside == <<page, hook, env, dbg, panel, cfg>>

exceptPage == <<hook, env, dbg, panel, cfg>>
exceptHook == <<page, env, dbg, panel, cfg>>
exceptDbg == <<page, hook, panel, cfg>>
exceptPanel == <<page, hook, dbg, cfg>>
exceptCfg == <<page, hook, dbg, panel>>

vars == <<clientVars, aside>>

IdleRequest ==
    [pc |-> "idle", caller |-> "none", headers |-> NoHeaders,
     raw |-> NoObj, how |-> "pending", value |-> NoObj]

\* Whether the global `localStorage` exists: it does in a window context and
\* does not in the server runtime.
StorageDefined == isClient

\* A call whose caller has finished with it: nothing of it is left.
DoneRequest == [IdleRequest EXCEPT !.pc = "done"]

\* ----------------------------------------------- lib/config.ts: the client

\* Faulty variants of the request interceptor: the credential without its
\* scheme, and a header attached whether or not a token was found.
RequestFulfilled_NoScheme(headers, token) ==
    IF Truthy(token)
    THEN setItem(headers, "Authorization", token[1])
    ELSE headers

RequestFulfilled_Always(headers, token) ==
    setItem(headers, "Authorization",
            "Bearer " \o (IF token = None THEN "null" ELSE token[1]))

\* Faulty variant: the test is `token !== null`.
RequestFulfilled_NotNull(headers, token) ==
    IF token # None
    THEN setItem(headers, "Authorization", "Bearer " \o token[1])
    ELSE headers

\* Request interceptor, fulfilled handler (lines 94-100): `token` is the
\* value localStorage.getItem('token') returned.
RequestFulfilled(headers, token) ==
    IF Truthy(token)
    THEN setItem(headers, "Authorization", "Bearer " \o token[1])
    ELSE headers

\* Faulty variant: the fulfilled handler hands on response.data instead of
\* the response.
ResponseFulfilled_Unwrapped(response) == [response EXCEPT !.kind = "data"]

\* Response interceptor, fulfilled handler (lines 108-110).
ResponseFulfilled(response) == response

\* error.response?.status === 401 (line 112).
IsUnauthorized_Forbidden(error) == error.status = 403

IsUnauthorized(error) == error.status = 401

\* Faulty variants of the rejected handler: the token is kept on a 401; the
\* token is cleared on every failure; every failure navigates; the failure
\* is replaced by a value of the handler's own.
RejectedStorage_Keep(error, storage) == storage

RejectedStorage_AnyError(error, storage) == removeItem(storage, "token")

RejectedNavigates_AnyError(error, hasWindow) == hasWindow

RejectedValue_Swallowed(error) == [error EXCEPT !.kind = "none", !.status = 0]

\* Response interceptor, rejected handler (lines 111-122): the storage it
\* leaves, the navigations it issues and the value it rejects with.
RejectedStorage_Blank(error, storage) ==
    IF IsUnauthorized(error) THEN setItem(storage, "token", "") ELSE storage

RejectedStorage(error, storage) ==
    IF IsUnauthorized(error) THEN removeItem(storage, "token") ELSE storage

RejectedNavigates(error, hasWindow) == IsUnauthorized(error) /\ hasWindow

RejectedValue(error) == error

\* The record of a call once the response interceptor has handled what the
\* transport produced: the caller's promise is resolved with what the
\* fulfilled handler returns, or rejected with what the rejected one does.
Settled(r) ==
    [r EXCEPT !.pc = "settled",
              !.how = IF r.raw.kind = "response" THEN "resolved" ELSE "rejected",
              !.value = IF r.raw.kind = "response"
                        THEN ResponseFulfilled(r.raw) ELSE RejectedValue(r.raw)]

\* localStorage after the response interceptor has handled call r.
HandledStorage(r, storage) ==
    IF r.raw.kind = "response" THEN storage ELSE RejectedStorage(r.raw, storage)

\* Whether the caller's continuation stores a token: the sign-in flows do,
\* after `await` has returned a response (sign_in_old/page.tsx 65,
\* api-usage.tsx 236, hooks/sign_in.ts 17).
StoresToken(r) == r.caller \in SignInCallers /\ r.how = "resolved"

ContinuedStorage_Always(r, storage) ==
    IF r.caller \in SignInCallers
    THEN setItem(storage, "token", ToStorageString(r.value.token))
    ELSE storage

\* localStorage after the continuation of the caller of the settled call r.
ContinuedStorage(r, storage) ==
    IF StoresToken(r)
    THEN setItem(storage, "token", ToStorageString(r.value.token))
    ELSE storage

\* localStorage once everything that is still to run for call r has run:
\* the response interceptor and then the caller's continuation for an
\* outcome that has arrived, the continuation alone for a settled promise.
\* (Both run in the microtasks of the one event that delivers the outcome.)
RemainingStorage(r, storage) ==
    CASE r.pc = "arrived" -> ContinuedStorage(Settled(r), HandledStorage(r, storage))
      [] r.pc = "settled" -> ContinuedStorage(r, storage)
      [] OTHER -> storage

\* ------------------------------------------------ middleware.ts: the guard

\* String.prototype.startsWith.
StartsWith(s, prefix) ==
    /\ Len(prefix) <= Len(s)
    /\ SubSeq(s, 1, Len(prefix)) = prefix

\* A matcher that admits every path ('/:path*').
MatcherAdmits_Everything(path) == Len(path) >= 0

\* config.matcher '/dashboard/:path*': '/dashboard' itself and every path
\* below '/dashboard/'.
MatcherAdmits(path) ==
    \/ path = DASHBOARD
    \/ StartsWith(path, DASHBOARD \o <<"/">>)

NextResponseNext == [type |-> "next", location |-> <<>>]
NextResponseRedirect(path) == [type |-> "redirect", location |-> path]

\* request.cookies.get('token')?.value (line 5).
CookieValue(cookies) == getItem(cookies, "token")

\* Faulty variants of the guard: only the exact path is protected; the
\* cookie's value is validated; the prefix check is missing.
middleware_ExactPath(pathname, cookies) ==
    IF pathname = DASHBOARD /\ ~Truthy(CookieValue(cookies))
    THEN NextResponseRedirect(SIGN_IN)
    ELSE NextResponseNext

middleware_Validating(pathname, cookies) ==
    IF StartsWith(pathname, DASHBOARD) /\ CookieValue(cookies) # Some("abc")
    THEN NextResponseRedirect(SIGN_IN)
    ELSE NextResponseNext

middleware_NoPrefix(pathname, cookies) ==
    IF ~Truthy(CookieValue(cookies))
    THEN NextResponseRedirect(SIGN_IN)
    ELSE NextResponseNext

\* middleware(request) (lines 4-15).
middleware(pathname, cookies) ==
    LET token == CookieValue(cookies) IN
    IF StartsWith(pathname, DASHBOARD) /\ ~Truthy(token)
    THEN NextResponseRedirect(SIGN_IN)
    ELSE NextResponseNext

\* The page requests considered: the protected root, paths below it, a
\* path that only shares the prefix's characters, and unprotected paths.
GuardPaths ==
    {DASHBOARD,
     DASHBOARD \o <<"/">>,
     DASHBOARD \o <<"/", "a">>,
     DASHBOARD \o <<"/", "a", "/", "b">>,
     DASHBOARD \o <<"x">>,
     SubSeq(DASHBOARD, 1, 5),
     <<"/", "a">> \o DASHBOARD,
     SIGN_IN,
     <<"/">>}

\* The cookie jars a page request may carry: no 'token' cookie, or one
\* with any of the token strings as its value.
CookieJars ==
    {EmptyStorage} \cup {setItem(EmptyStorage, "token", t) : t \in Tokens \cup {"stale"}}

NoGuardRequest ==
    [handled |-> FALSE, pathname |-> <<>>, cookies |-> EmptyStorage,
     matched |-> FALSE, response |-> NextResponseNext]

\* ------------------------------- the server component DashboardPage
\* (examples/server-side-api.tsx over fetch, unnamed/part_000 over axios)

\* How many page requests the server component renders.
MaxServed == 2

\* What a function call comes to: it returns a value or throws one.
Return(v) == [how |-> "return", value |-> v]
Throw(e) == [how |-> "throw", value |-> e]

\* redirect(path) of next/navigation never returns (its type is `never`,
\* which is what lets line 56 pass `token` as a string): it throws the
\* framework's redirect signal.
NEXT_REDIRECT(path) == [name |-> "NEXT_REDIRECT", location |-> path, status |-> 0]
redirect(path) == Throw(NEXT_REDIRECT(path))

\* new Error(`API Error: ${status}`), an AxiosError with a response, and
\* the failure of a request that got no response.
ApiError(status) == [name |-> "Error", location |-> <<>>, status |-> status]
NoProfile == [name |-> "none", location |-> <<>>, status |-> 0]
UserData == [name |-> "userData", location |-> <<>>, status |-> 200]

\* The answers of the backend to GET /user/profile.
ProfileStatuses == {200, 401, 403, 500, NetworkFailure}

PageVariants == {"fetch", "axios"}

\* serverApiCall('/user/profile', token) (server-side-api.tsx 8-33) for a
\* given answer of the backend; fetch itself rejects on a network failure.
serverApiCall(status) ==
    IF status = NetworkFailure THEN Throw(ApiError(status))
    ELSE IF status \notin SuccessStatuses
         THEN IF status = 401 THEN redirect(SIGN_IN) ELSE Throw(ApiError(status))
         ELSE Return(UserData)

\* try { body } catch (error) { throw error }.
Rethrow(result) == result

\* getUserData(token): server-side-api.tsx 36-44 logs and rethrows whatever
\* serverApiCall threw; part_000 15-30 calls redirect inside its catch block
\* for a 401 and rethrows everything else.
getUserData(variant, status) ==
    IF variant = "fetch"
    THEN Rethrow(serverApiCall(status))
    ELSE IF status \in SuccessStatuses
         THEN Return(UserData)
         ELSE IF status = 401 THEN redirect(SIGN_IN) ELSE Throw(ApiError(status))

\* What the framework gets from the component: a redirect signal that
\* escaped it, or the element it returned.
Redirected(path) == [type |-> "redirect", location |-> path, view |-> "none"]
View(name) == [type |-> "view", location |-> <<>>, view |-> name]
NoOutcome == [type |-> "none", location |-> <<>>, view |-> "none"]

\* try { userData = await getUserData(token); return <Dashboard/> }
\* catch (error) { return <Error/> }: the catch clause takes every thrown
\* value, whatever it is (server-side-api.tsx 55-79, part_000 41-58).
TryRender(result) ==
    IF result.how = "return" THEN View("dashboard") ELSE View("error")

NoPage ==
    [pc |-> "idle", variant |-> "none", cookies |-> EmptyStorage, status |-> None,
     result |-> Return(NoProfile), outcome |-> NoOutcome, served |-> 0]

\* ------------------------------------------- hooks/sign_in.ts: useSignIn

\* How many calls of signIn a component makes; nothing in the hook keeps a
\* second call from starting while the first is awaiting its response.
MaxCalls == 2

CallIds == 1..MaxCalls

\* The messages a backend may put into the body of an error response.
Messages == {"", "Invalid credentials"}

\* What axios.post settles with: a 2xx response with its data (the token in
\* it possibly missing), an error with a response (its data.message possibly
\* missing), or an error without a response.
LoginOutcomes ==
    {[ok |-> TRUE, status |-> st, token |-> t, message |-> None] :
        st \in SuccessStatuses, t \in {None} \cup {Some(x) : x \in Tokens}}
    \cup {[ok |-> FALSE, status |-> st, token |-> None, message |-> m] :
        st \in ErrorStatuses, m \in {None} \cup {Some(x) : x \in Messages}}
    \cup {[ok |-> FALSE, status |-> NetworkFailure, token |-> None, message |-> None]}

NoLoginOutcome == [ok |-> FALSE, status |-> NetworkFailure, token |-> None, message |-> None]

\* err.response?.data?.message || 'Login failed' (line 20).
errorMessage(err) == IF Truthy(err.message) THEN err.message[1] ELSE "Login failed"

\* What the promise of signIn resolves with (lines 18 and 22).
NoResult == [settled |-> FALSE, success |-> FALSE, data |-> None, error |-> ""]
SignInResult(outcome) ==
    IF outcome.ok
    THEN [settled |-> TRUE, success |-> TRUE, data |-> Some(outcome), error |-> ""]
    ELSE [settled |-> TRUE, success |-> FALSE, data |-> None, error |-> errorMessage(outcome)]

\* useState(null), useState(false), useState('') (lines 5-7), and the calls
\* of signIn with what each has resolved with.
NoHook ==
    [data |-> None, loading |-> FALSE, error |-> "",
     calls |-> [c \in CallIds |-> [pc |-> "idle", outcome |-> NoLoginOutcome,
                                   result |-> NoResult]]]

\* ------------------------------------------ lib/config.ts: the config object

\* The values of NEXT_PUBLIC_APP_ENV: unset, empty, the three environments
\* the code names, and another one.
AppEnvs == {None, Some(""), Some("development"), Some("staging"), Some("production"),
            Some("test")}

\* config (lines 2-37): env falls back to 'development', the flags compare
\* the variable itself.
config(appEnv) ==
    [env |-> IF Truthy(appEnv) THEN appEnv[1] ELSE "development",
     isDev |-> appEnv = Some("development"),
     isStaging |-> appEnv = Some("staging"),
     isProd |-> appEnv = Some("production"),
     features |-> [analytics |-> appEnv = Some("production"),
                   debugMode |-> appEnv = Some("development"),
                   betaFeatures |-> appEnv = Some("staging"),
                   verboseLogging |-> appEnv # Some("production")]]

\* process.env.NEXT_PUBLIC_API_URL || 'http://localhost:3001/api' (line 6).
ApiUrls == {None, Some(""), Some("https://api.example.com")}
apiUrl(var) == IF Truthy(var) THEN var[1] ELSE "http://localhost:3001/api"

\* String.prototype.toUpperCase on the names config.env can hold.
ToUpperCase(str) ==
    CASE str = "development" -> "DEVELOPMENT"
      [] str = "staging" -> "STAGING"
      [] str = "production" -> "PRODUCTION"
      [] str = "test" -> "TEST"

\* EnvironmentBanner (part_001 260-287): nothing in production, else the
\* colour and icon of staging or of development around config.env.
NoBanner == [shown |-> FALSE, style |-> "none", icon |-> "none", text |-> "", api |-> ""]
EnvironmentBanner(c, url) ==
    IF c.isProd THEN NoBanner
    ELSE [shown |-> TRUE,
          style |-> IF c.isStaging THEN "yellow" ELSE "red",
          icon |-> IF c.isStaging THEN "construction" ELSE "tools",
          text |-> ToUpperCase(c.env),
          api |-> url]

\* logger (config.ts 44-61): the console method each level calls, if any.
logger(c, level) ==
    CASE level = "debug" -> IF c.features.debugMode THEN <<"log">> ELSE <<>>
      [] level = "info" -> IF c.features.verboseLogging THEN <<"info">> ELSE <<>>
      [] level = "warn" -> <<"warn">>
      [] level = "error" -> <<"error">>

LogLevels == {"debug", "info", "warn", "error"}

\* The module before it is evaluated.
NoConfig ==
    [env |-> "", isDev |-> FALSE, isStaging |-> FALSE, isProd |-> FALSE,
     features |-> [analytics |-> FALSE, debugMode |-> FALSE, betaFeatures |-> FALSE,
                   verboseLogging |-> FALSE]]

NoCfg ==
    [apiUrlVar |-> None, loaded |-> FALSE, value |-> NoConfig, apiUrl |-> "",
     banner |-> NoBanner, rendered |-> FALSE, level |-> "none", console |-> <<>>]

\* ---------------------------------------------------- lib/debugger.ts

\* How many objects a DebugConsole is given to inspect between two clears.
MaxHistory == 3

\* JavaScript values handed to the utilities: an object, a string and
\* undefined.
Values ==
    {[type |-> "object", id |-> 1], [type |-> "string", id |-> 2],
     [type |-> "undefined", id |-> 0]}

IsObject(v) == v.type = "object"
TruthyValue(v) == v.type # "undefined"

\* What a call does that can be seen from outside: the console methods it
\* calls, whether it executes a `debugger` statement, what it returns.
Effect(console, paused, ret) == [console |-> console, paused |-> paused, ret |-> ret]
Quiet == Effect(<<>>, FALSE, <<>>)

\* debug.inspect (lines 6-23).
inspect_Always(debugMode, obj) ==
    Effect(<<"group", "log", "log", "log">>
           \o (IF IsObject(obj) THEN <<"table">> ELSE <<>>)
           \o <<"trace", "groupEnd">>, FALSE, <<obj>>)

inspect(debugMode, obj) ==
    IF ~debugMode THEN Effect(<<>>, FALSE, <<obj>>)
    ELSE Effect(<<"group", "log", "log", "log">>
                \o (IF IsObject(obj) THEN <<"table">> ELSE <<>>)
                \o <<"trace", "groupEnd">>, FALSE, <<obj>>)

\* debug.when (26-33).
when(debugMode, condition) ==
    IF ~debugMode THEN Quiet
    ELSE IF condition THEN Effect(<<"log">>, TRUE, <<>>) ELSE Quiet

\* debug.time and debug.timeEnd (36-44).
time(debugMode) == IF ~debugMode THEN Quiet ELSE Effect(<<"time">>, FALSE, <<>>)
timeEnd(debugMode) == IF ~debugMode THEN Quiet ELSE Effect(<<"timeEnd">>, FALSE, <<>>)

\* debug.breakpoint (47-58).
breakpoint(debugMode, data) ==
    IF ~debugMode THEN Quiet
    ELSE Effect(<<"log">> \o (IF TruthyValue(data) THEN <<"log">> ELSE <<>>)
                \o <<"trace">>, TRUE, <<>>)

\* debug.info, debug.warn, debug.error (61-72): info looks at
\* verboseLogging, the other two at nothing.
info(verboseLogging) == IF ~verboseLogging THEN Quiet ELSE Effect(<<"info">>, FALSE, <<>>)
warn == Effect(<<"warn">>, FALSE, <<>>)
error == Effect(<<"error">>, FALSE, <<>>)

\* debug.api.request (76-86) and debug.api.response (88-98).
apiRequest(debugMode, hasBody) ==
    IF ~debugMode THEN Quiet
    ELSE Effect(<<"group", "log", "log">> \o (IF hasBody THEN <<"log">> ELSE <<>>)
                \o <<"groupEnd">>, FALSE, <<>>)

apiResponse(debugMode, data) ==
    IF ~debugMode THEN Quiet
    ELSE Effect(<<"group", "log", "log">> \o (IF TruthyValue(data) THEN <<"log">> ELSE <<>>)
                \o <<"groupEnd">>, FALSE, <<>>)

\* debug.render (102-106) and debug.memory (109-122).
render(debugMode) == IF ~debugMode THEN Quiet ELSE Effect(<<"log">>, FALSE, <<>>)
memory(debugMode, hasMemory) ==
    IF ~debugMode THEN Quiet
    ELSE Effect(IF hasMemory THEN <<"table">> ELSE <<"log">>, FALSE, <<>>)

\* The utilities the module promises to keep silent outside development.
DevOnly ==
    {"inspect", "when", "time", "timeEnd", "breakpoint", "api.request",
     "api.response", "render", "memory"}

\* A call as it is remembered: the utility, its argument if it takes a
\* value, what it did, and for getInstance the object it returned.
NoCall ==
    [op |-> "none", arg |-> <<>>, console |-> <<>>, paused |-> FALSE, ret |-> <<>>,
     inst |-> 0]
Called(op, arg, effect) ==
    [op |-> op, arg |-> arg, console |-> effect.console, paused |-> effect.paused,
     ret |-> effect.ret, inst |-> 0]

\* Before the module is loaded: no DebugConsole exists, the static field
\* `instance` is undefined, window has neither global.
NoDbg ==
    [loaded |-> FALSE, globals |-> {}, instance |-> None, histories |-> <<>>,
     dc |-> 0, last |-> NoCall]

\* ------------------------------------------- DebugPanel (unnamed/part_001)

\* How many DebugPanel components the page mounts.
MaxPanels == 3

PanelIds == 1..MaxPanels

\* Functions that console.log may be: the one the runtime installed, and
\* the wrapper that the effect of panel k creates (line 37).
NativeLog == 0
Wrapper(k) == k

\* console.log as installed by the runtime, no panel mounted yet; original[k]
\* is the `originalLog` the effect of panel k has captured (line 36).
NoPanel ==
    [log |-> NativeLog,
     status |-> [k \in PanelIds |-> "new"],
     original |-> [k \in PanelIds |-> NativeLog],
     last |-> [called |-> FALSE, native |-> 0, received |-> {}, mounted |-> {}]]

Mounted(p) == {k \in PanelIds : p.status[k] = "mounted"}

\* Calling the function f (lines 37-40): a wrapper hands the entry to its
\* panel's setLogs and calls the original it captured; the chain ends at
\* the runtime's function.  The wrappers a call passes through, and how
\* often it reaches the runtime's function.
RECURSIVE Receivers(_, _)
Receivers(p, f) ==
    IF f = NativeLog THEN {} ELSE {f} \cup Receivers(p, p.original[f])

RECURSIVE NativeCalls(_, _)
NativeCalls(p, f) ==
    IF f = NativeLog THEN 1 ELSE NativeCalls(p, p.original[f])

InitAside ==
    /\ page = NoPage /\ hook = NoHook /\ env = None /\ dbg = NoDbg /\ panel = NoPanel
    /\ cfg = NoCfg

\* Everything but the cookies.  What localStorage holds when the page loads
\* is whatever an earlier visit left there.
InitWindow ==
    /\ isClient \in BOOLEAN
    /\ localStorage \in
         IF isClient
         THEN {EmptyStorage} \cup {setItem(EmptyStorage, "token", t) : t \in Tokens}
         ELSE {EmptyStorage}
    /\ req = [i \in Ids |-> IdleRequest]
    /\ location = None
    /\ redirects = 0
    /\ unauthorized = 0
    /\ guard = NoGuardRequest
    /\ ended = {}

InitBrowser == InitWindow /\ InitAside

\* No statement of the repository writes a cookie: the jar is what it was
\* when the page loaded, here empty.
Init == InitBrowser /\ cookieJar = EmptyStorage

\* A component or a sign-in form calls api.get / api.post (the promise chain
\* of the interceptors is scheduled, nothing has run yet).
Call(i, caller) ==
    /\ req[i].pc = "idle"
    /\ caller \in SignInCallers => isClient
    /\ \A j \in Ids : j < i => req[j].pc # "idle"
    /\ req' = [req EXCEPT ![i].pc = IF caller \in HookCallers THEN "sent" ELSE "called",
                          ![i].caller = caller]
    /\ UNCHANGED <<isClient, localStorage, location, redirects, unauthorized, guard, cookieJar, aside, ended>>

\* The request interceptor runs and the request is handed to the transport.
\* Where localStorage is not defined (no window), line 95 throws a
\* ReferenceError: the request is never dispatched and the rejection travels
\* down the chain to the response interceptor's rejected handler.
RequestInterceptor(i) ==
    /\ req[i].pc = "called"
    /\ IF StorageDefined
       THEN LET token == getItem(localStorage, "token") IN
            req' = [req EXCEPT ![i].pc = "sent",
                               ![i].headers = RequestFulfilled(req[i].headers, token)]
       ELSE req' = [req EXCEPT ![i].pc = "arrived",
                               ![i].raw = ReferenceError(i)]
    /\ UNCHANGED <<isClient, localStorage, location, redirects, unauthorized, guard, cookieJar, aside, ended>>

\* The transport settles the dispatched request: a 2xx response (a login
\* response carries data.token, possibly missing), an error status, or a
\* network failure without a response.  A request of the bare axios import
\* settles its caller's promise at once: no interceptor stands in between.
Transport(i) ==
    /\ req[i].pc = "sent"
    /\ \E raw \in {Response(i, s, None) : s \in SuccessStatuses}
                  \cup {Response(i, s, Some(t)) : s \in SuccessStatuses, t \in Tokens}
                  \cup {AxiosError(i, s) : s \in ErrorStatuses \cup {NetworkFailure}} :
         /\ raw.token # None => req[i].caller \in SignInCallers
         /\ req' = IF req[i].caller \in HookCallers
                   THEN [req EXCEPT ![i].pc = "settled", ![i].raw = raw,
                                    ![i].how = IF raw.kind = "response"
                                               THEN "resolved" ELSE "rejected",
                                    ![i].value = raw]
                   ELSE [req EXCEPT ![i].pc = "arrived", ![i].headers = NoHeaders,
                                    ![i].raw = raw]
    /\ UNCHANGED <<isClient, localStorage, location, redirects, unauthorized, guard, cookieJar, aside, ended>>

ResponseInterceptor_Retry(i) ==
    /\ req[i].pc = "arrived"
    /\ localStorage' = HandledStorage(req[i], localStorage)
    /\ req' = [req EXCEPT ![i] = IF req[i].raw.status = 401
                                 THEN [req[i] EXCEPT !.pc = "sent", !.raw = NoObj]
                                 ELSE Settled(req[i])]
    /\ UNCHANGED <<isClient, location, redirects, unauthorized, guard, cookieJar, aside, ended>>

\* The response interceptor handles the outcome and settles the caller's
\* promise.
ResponseInterceptor(i) ==
    /\ req[i].pc = "arrived"
    /\ LET raw == req[i].raw
           ok == raw.kind = "response"
           nav == ~ok /\ RejectedNavigates(raw, isClient)
       IN /\ localStorage' = HandledStorage(req[i], localStorage)
          /\ location' = IF nav THEN SIGN_IN ELSE location
          /\ redirects' = IF nav THEN redirects + 1 ELSE redirects
          /\ unauthorized' = IF raw.status = 401 THEN unauthorized + 1 ELSE unauthorized
          /\ ended' = IF raw.status = 401 THEN ended \cup {"401"} ELSE ended
          /\ req' = [req EXCEPT ![i] = Settled(req[i])]
    /\ UNCHANGED <<isClient, guard, cookieJar, aside>>

\* The caller's code after `await api....`.  SignIn.handleSubmit
\* (sign_in_old/page.tsx 55-70) and LoginForm.handleLogin (api-usage.tsx
\* 230-239) store response.data.token and go to the dashboard; useSignIn
\* (hooks/sign_in.ts 15-18) stores it and returns; on a rejection they only
\* show a message.  Other components only render.
CallerContinue(i) ==
    /\ req[i].pc = "settled"
    /\ req' = [req EXCEPT ![i] = DoneRequest]
    /\ localStorage' = ContinuedStorage(req[i], localStorage)
    /\ IF StoresToken(req[i])
       THEN /\ location' = IF req[i].caller \in LoginCallers THEN DASHBOARD ELSE location
            /\ ended' = {}
       ELSE UNCHANGED <<location, ended>>
    /\ UNCHANGED <<isClient, redirects, unauthorized, guard, cookieJar, aside>>

Logout_OnlyNavigates ==
    /\ isClient
    /\ location' = SIGN_IN
    /\ ended' = ended \cup {"logout"}
    /\ UNCHANGED <<isClient, localStorage, req, redirects, unauthorized, guard, cookieJar, aside>>

\* LogoutButton.handleLogout (api-usage.tsx 292-298).
Logout ==
    /\ isClient
    /\ localStorage' = removeItem(localStorage, "token")
    /\ location' = SIGN_IN
    /\ ended' = ended \cup {"logout"}
    /\ UNCHANGED <<isClient, req, redirects, unauthorized, guard, cookieJar, aside>>

\* A page request reaches the middleware.
Middleware(pathname, cookies) ==
    /\ guard' = [handled |-> TRUE, pathname |-> pathname, cookies |-> cookies,
                 matched |-> MatcherAdmits(pathname),
                 response |-> middleware(pathname, cookies)]
    /\ UNCHANGED <<isClient, localStorage, req, location, redirects, unauthorized,
                   cookieJar, aside, ended>>

Next ==
    \/ \E i \in Ids, c \in Callers : Call(i, c)
    \/ \E i \in Ids : CallerContinue(i)
    \/ Logout
    \/ \E i \in Ids : RequestInterceptor(i)
    \/ \E i \in Ids : Transport(i)
    \/ \E i \in Ids : ResponseInterceptor(i)

Spec == Init /\ [][Next]_vars

\* The Route Guard on its own: it is stateless and decides each page
\* request from the request alone.
NextGuard == \E p \in GuardPaths, c \in CookieJars : Middleware(p, c)

SpecGuard == Init /\ [][NextGuard]_vars

\* ---------------------------------------------- the browser session as a whole
\* The client and the guard together, in one browser.  The session starts
\* consistent: the cookie holds what localStorage holds (both the token, or
\* both nothing).  One call is under way at a time.

InitSession == InitBrowser /\ isClient /\ cookieJar = localStorage

\* The pages the user opens by hand.
SessionPaths == {DASHBOARD, DASHBOARD \o <<"/", "a">>, SIGN_IN}

\* The user opens a page: the request carries the browser's cookies.
Visit(pathname) ==
    /\ isClient
    /\ Middleware(pathname, cookieJar)

\* The browser loads the page the application told it to go to
\* (window.location.href = ..., router.push(...)): the request carries the
\* browser's cookies.
PageLoad ==
    /\ isClient
    /\ location # None
    /\ Middleware(location, cookieJar)

NextSession ==
    \/ \E c \in Callers : Call(1, c)
    \/ RequestInterceptor(1)
    \/ Transport(1)
    \/ ResponseInterceptor(1)
    \/ CallerContinue(1)
    \/ Logout
    \/ PageLoad
    \/ \E p \in SessionPaths : Visit(p)

SpecSession == InitSession /\ [][NextSession]_vars

\* ------------------------------------------------------------ properties

\* The request interceptor runs on call i in this step.
Intercepts(i) == req[i].pc = "called" /\ req'[i].pc # "called"

\* The response interceptor handles the outcome of call i in this step.
Handles(i) == req[i].pc = "arrived" /\ req'[i].pc = "settled"

\* What the transport produced for call i is a response or an error of the
\* transport (not an exception raised before dispatch).
FromTransport(i) == req[i].raw.kind \in {"response", "AxiosError"}

\* C1: whenever the request interceptor runs while localStorage holds a
\* token t under 'token' (a non-empty string), the request is dispatched
\* with Authorization = 'Bearer ' + t, t being the value stored at that
\* moment.
C1_BearerOfStoredToken ==
    [][\A i \in Ids :
         (Intercepts(i) /\ StorageDefined /\ Truthy(getItem(localStorage, "token")))
         => /\ req'[i].pc = "sent"
            /\ DOMAIN req'[i].headers = {"Authorization"}
            /\ req'[i].headers["Authorization"] = "Bearer " \o localStorage["token"]]_vars

\* A request is on its way with the credential of a token that has since
\* been removed from the store.
C1_Witness ==
    \E i \in Ids :
        /\ req[i].pc = "sent"
        /\ DOMAIN req[i].headers = {"Authorization"}
        /\ req[i].headers["Authorization"] = "Bearer abc"
        /\ getItem(localStorage, "token") = None

\* C2: whenever the request interceptor runs while localStorage holds
\* nothing under 'token', the request is dispatched without an
\* Authorization header.
C2_NoTokenNoHeader ==
    [][\A i \in Ids :
         (Intercepts(i) /\ StorageDefined /\ getItem(localStorage, "token") = None)
         => /\ req'[i].pc = "sent"
            /\ "Authorization" \notin DOMAIN req'[i].headers]_vars

\* A request is on its way without a credential while the store is empty.
C2_Witness ==
    \E i \in Ids :
        /\ req[i].pc = "sent"
        /\ req[i].headers = NoHeaders
        /\ isClient
        /\ getItem(localStorage, "token") = None

\* C3: when the response interceptor handles a 401, localStorage holds
\* nothing under 'token' right after it, whatever it held before.
C3_UnauthorizedClearsToken ==
    [][\A i \in Ids :
         (Handles(i) /\ req[i].raw.status = 401)
         => getItem(localStorage', "token") = None]_vars

\* A 401 has just been handled and the store is empty.
C3_Witness ==
    \E i \in Ids :
        /\ req[i].pc = "settled"
        /\ req[i].raw.status = 401
        /\ getItem(localStorage, "token") = None

\* C4: handling a 401 issues exactly one navigation, to '/sign_in', and
\* handling any other outcome issues none; so the number of navigations the
\* client has issued is the number of 401 responses it has handled.
C4_OneNavigationPerUnauthorized ==
    /\ [](redirects = unauthorized)
    /\ [][\A i \in Ids :
            Handles(i)
            => IF req[i].raw.status = 401
               THEN redirects' = redirects + 1 /\ location' = SIGN_IN
               ELSE redirects' = redirects /\ location' = location]_vars

\* Two 401 responses have been handled and two navigations were issued.
C4_Witness ==
    /\ unauthorized = 2
    /\ redirects = 2
    /\ location = SIGN_IN

\* C5: handling any outcome other than a 401 (a 2xx response, another error
\* status, a failure without a response) leaves localStorage as it was.
C5_OtherOutcomesKeepToken ==
    [][\A i \in Ids :
         (Handles(i) /\ req[i].raw.status # 401)
         => localStorage' = localStorage]_vars

\* A 500 has just been handled and the token is still stored.
C5_Witness ==
    \E i \in Ids :
        /\ req[i].pc = "settled"
        /\ req[i].raw.status = 500
        /\ getItem(localStorage, "token") = Some("abc")

\* C6: a call that failed with a 401 is rejected with the very error the
\* transport produced, in the window context and outside it.
C6_UnauthorizedErrorPropagates ==
    \A i \in Ids :
        (req[i].pc = "settled" /\ req[i].raw.status = 401)
        => /\ req[i].how = "rejected"
           /\ req[i].value = req[i].raw

\* The caller of a 401 has been rejected after the teardown took place.
C6_Witness ==
    \E i \in Ids :
        /\ req[i].pc = "settled"
        /\ req[i].raw.status = 401
        /\ req[i].how = "rejected"
        /\ location = SIGN_IN

\* C7: for every outcome of the transport other than a 401, the caller gets
\* exactly what the transport produced (resolved with the response,
\* rejected with the error) and no navigation is issued.
C7_OtherOutcomesPassThrough ==
    /\ [](\A i \in Ids :
            (req[i].pc = "settled" /\ FromTransport(i) /\ req[i].raw.status # 401)
            => /\ req[i].value = req[i].raw
               /\ req[i].how = IF req[i].raw.kind = "response"
                                THEN "resolved" ELSE "rejected")
    /\ [][\A i \in Ids :
            (Handles(i) /\ req[i].raw.status # 401)
            => redirects' = redirects /\ location' = location]_vars

\* A response, an error status and a network failure have each been handed
\* to a caller.
C7_Witness ==
    /\ \E i \in Ids : req[i].pc = "settled" /\ req[i].how = "resolved"
                        /\ req[i].value.status = 200
    /\ \E i \in Ids : req[i].pc = "settled" /\ req[i].how = "rejected"
                        /\ req[i].value.kind = "AxiosError"
                        /\ req[i].value.status \in {500, NetworkFailure}
    /\ redirects = 0

\* C8: a page request whose path starts with '/dashboard' and that carries
\* no 'token' cookie is answered with a redirect to '/sign_in', so the page
\* is not served.
C8_ProtectedWithoutCookieRedirects ==
    (guard.handled /\ StartsWith(guard.pathname, DASHBOARD)
       /\ "token" \notin DOMAIN guard.cookies)
    => /\ guard.response = NextResponseRedirect(SIGN_IN)
       /\ guard.response.type # "next"

\* A request below '/dashboard/' without a cookie was redirected.
C8_Witness ==
    /\ guard.handled
    /\ guard.pathname = DASHBOARD \o <<"/", "a">>
    /\ "token" \notin DOMAIN guard.cookies
    /\ guard.response.type = "redirect"

\* C9 as stated: every page request that carries a 'token' cookie proceeds
\* unmodified, whatever the cookie's value.
C9_AnyCookieProceeds ==
    (guard.handled /\ "token" \in DOMAIN guard.cookies)
    => guard.response = NextResponseNext

\* C9 as amended: every page request that carries a 'token' cookie with a
\* non-empty value proceeds unmodified whatever that value is, and a cookie
\* with the empty value is treated as no cookie: the decision is the one any
\* other non-empty (respectively empty or missing) cookie would have got.
C9_NonEmptyCookieProceeds ==
    guard.handled
    => /\ Truthy(CookieValue(guard.cookies)) => guard.response = NextResponseNext
       /\ \A c \in CookieJars :
            Truthy(CookieValue(c)) = Truthy(CookieValue(guard.cookies))
            => middleware(guard.pathname, c) = guard.response

\* A request for a protected path with a cookie the backend would not accept
\* proceeded.
C9_Witness ==
    /\ guard.handled
    /\ guard.pathname = DASHBOARD
    /\ CookieValue(guard.cookies) = Some("stale")
    /\ guard.response = NextResponseNext

\* C10: a page request whose path does not start with '/dashboard' proceeds
\* unmodified, with and without a cookie.
C10_UnprotectedProceeds ==
    (guard.handled /\ ~StartsWith(guard.pathname, DASHBOARD))
    => guard.response = NextResponseNext

\* A request for '/sign_in' without a cookie proceeded.
C10_Witness ==
    /\ guard.handled
    /\ guard.pathname = SIGN_IN
    /\ "token" \notin DOMAIN guard.cookies
    /\ guard.response = NextResponseNext

\* ------------------------------------------------------ following redirects
\* The browser follows the redirect the guard answered with: it requests
\* the Location it was given, with the same cookies.
FollowRedirect ==
    /\ isClient
    /\ guard.handled
    /\ guard.response.type = "redirect"
    /\ Middleware(guard.response.location, guard.cookies)

\* The protected pages the user opens by hand; the sign-in page is
\* reached by being sent there.
ProtectedPaths == {p \in SessionPaths : StartsWith(p, DASHBOARD)}

NextRedirects ==
    \/ \E c \in Callers : Call(1, c)
    \/ RequestInterceptor(1)
    \/ Transport(1)
    \/ ResponseInterceptor(1)
    \/ CallerContinue(1)
    \/ Logout
    \/ FollowRedirect
    \/ PageLoad
    \/ \E p \in ProtectedPaths : Visit(p)

SpecRedirects == InitSession /\ [][NextRedirects]_vars

\* ---------------------------------------- DashboardPage, step by step
\* The framework calls the component for a request of the dashboard page.
PageRequest(variant, cookies) ==
    /\ page.pc \in {"idle", "done"}
    /\ page.served < MaxServed
    /\ page' = [NoPage EXCEPT !.pc = "entered", !.variant = variant,
                              !.cookies = cookies, !.served = page.served]
    /\ UNCHANGED <<clientVars, exceptPage>>

\* const token = cookieStore.get('token')?.value; if (!token)
\* redirect('/sign_in'): outside every try block, so the signal reaches the
\* framework.  Otherwise the profile is requested.
CheckCookie ==
    /\ page.pc = "entered"
    /\ page' = IF ~Truthy(CookieValue(page.cookies))
               THEN [page EXCEPT !.pc = "done",
                                 !.outcome = Redirected(redirect(SIGN_IN).value.location),
                                 !.served = page.served + 1]
               ELSE [page EXCEPT !.pc = "fetching"]
    /\ UNCHANGED <<clientVars, exceptPage>>

\* The backend answers and getUserData returns or throws.
BackendAnswers(status) ==
    /\ page.pc = "fetching"
    /\ page' = [page EXCEPT !.pc = "awaited", !.status = Some(status),
                            !.result = getUserData(page.variant, status)]
    /\ UNCHANGED <<clientVars, exceptPage>>

\* The try statement of DashboardPage completes.
Render ==
    /\ page.pc = "awaited"
    /\ page' = [page EXCEPT !.pc = "done", !.outcome = TryRender(page.result),
                            !.served = page.served + 1]
    /\ UNCHANGED <<clientVars, exceptPage>>

\* The server component runs on the server: no window, no localStorage.
InitPage == InitBrowser /\ ~isClient /\ cookieJar = EmptyStorage

NextPage ==
    \/ \E v \in PageVariants, c \in CookieJars : PageRequest(v, c)
    \/ CheckCookie
    \/ \E s \in ProfileStatuses : BackendAnswers(s)
    \/ Render

SpecPage == InitPage /\ [][NextPage]_vars

\* ------------------------------------------------- useSignIn, step by step
\* signIn(email, password) runs up to its await: setLoading(true),
\* setError(''), axios.post (lines 13-15).
SignInStart(c) ==
    /\ hook.calls[c].pc = "idle"
    /\ \A b \in CallIds : b < c => hook.calls[b].pc # "idle"
    /\ hook' = [hook EXCEPT !.loading = TRUE, !.error = "",
                            !.calls[c].pc = "awaiting"]
    /\ UNCHANGED <<clientVars, exceptHook>>

\* The request settles and signIn runs to its end: lines 16-18 and 24 for a
\* response, lines 20-22 and 24 for an error.
SignInSettle(c, outcome) ==
    /\ hook.calls[c].pc = "awaiting"
    /\ hook' = [hook EXCEPT
                  !.data = IF outcome.ok THEN Some(outcome) ELSE hook.data,
                  !.error = IF outcome.ok THEN hook.error ELSE errorMessage(outcome),
                  !.loading = FALSE,
                  !.calls[c] = [pc |-> "settled", outcome |-> outcome,
                                result |-> SignInResult(outcome)]]
    /\ localStorage' = IF outcome.ok
                       THEN setItem(localStorage, "token", ToStorageString(outcome.token))
                       ELSE localStorage
    /\ UNCHANGED <<isClient, req, location, redirects, unauthorized, guard, cookieJar,
                   ended, exceptHook>>

\* The hook lives in a component of the browser.
InitHook == InitBrowser /\ isClient /\ localStorage = EmptyStorage /\ cookieJar = EmptyStorage

NextHook ==
    \/ \E c \in CallIds : SignInStart(c)
    \/ \E c \in CallIds, o \in LoginOutcomes : SignInSettle(c, o)

SpecHook == InitHook /\ [][NextHook]_vars

\* --------------------------------------------- debugger.ts, call by call
\* The static method getInstance (130-135) on the class as it stands:
\* the instance it returns and the state of the class afterwards.
getInstance_Fresh(d) ==
    [d EXCEPT !.instance = Some(Len(d.histories) + 1),
              !.histories = Append(d.histories, <<>>)]

getInstance(d) ==
    IF d.instance = None
    THEN [d EXCEPT !.instance = Some(Len(d.histories) + 1),
                   !.histories = Append(d.histories, <<>>)]
    ELSE d

\* The module is evaluated (193-199): in a window and in debug mode it
\* installs window.dc and window.debug and says so.
LoadDebugger_Unguarded ==
    /\ ~dbg.loaded
    /\ LET d == getInstance(dbg) IN
       dbg' = IF isClient
              THEN [d EXCEPT !.loaded = TRUE, !.globals = {"dc", "debug"},
                             !.dc = d.instance[1],
                             !.last = Called("load", <<>>, Effect(<<"log">>, FALSE, <<>>))]
              ELSE [dbg EXCEPT !.loaded = TRUE, !.last = Called("load", <<>>, Quiet)]
    /\ UNCHANGED <<clientVars, exceptDbg, env>>

LoadDebugger ==
    /\ ~dbg.loaded
    /\ LET d == getInstance(dbg) IN
       dbg' = IF isClient /\ config(env).features.debugMode
              THEN [d EXCEPT !.loaded = TRUE, !.globals = {"dc", "debug"},
                             !.dc = d.instance[1],
                             !.last = Called("load", <<>>, Effect(<<"log">>, FALSE, <<>>))]
              ELSE [dbg EXCEPT !.loaded = TRUE, !.last = Called("load", <<>>, Quiet)]
    /\ UNCHANGED <<clientVars, exceptDbg, env>>

\* Some code of the application calls one of the utilities of `debug`.
DebugCall(op, arg, effect) ==
    /\ dbg.loaded
    /\ dbg' = [dbg EXCEPT !.last = Called(op, arg, effect)]
    /\ UNCHANGED <<clientVars, exceptDbg, env>>

\* DebugConsole.getInstance(): the caller keeps what it returns.
GetInstance ==
    /\ dbg.loaded
    /\ LET d == getInstance(dbg) IN
       dbg' = [d EXCEPT !.dc = d.instance[1],
                        !.last = [NoCall EXCEPT !.op = "getInstance",
                                                !.inst = d.instance[1]]]
    /\ UNCHANGED <<clientVars, exceptDbg, env>>

\* dc.inspect(obj) (138-141) on the DebugConsole the caller holds.
DcInspect_Replace(obj) ==
    /\ dbg.dc # 0
    /\ Len(dbg.histories[dbg.dc]) < MaxHistory
    /\ LET e == inspect(config(env).features.debugMode, obj) IN
       dbg' = [dbg EXCEPT !.histories[dbg.dc] = <<obj>>,
                          !.last = Called("dc.inspect", <<obj>>, e)]
    /\ UNCHANGED <<clientVars, exceptDbg, env>>

DcInspect(obj) ==
    /\ dbg.dc # 0
    /\ Len(dbg.histories[dbg.dc]) < MaxHistory
    /\ LET e == inspect(config(env).features.debugMode, obj) IN
       dbg' = [dbg EXCEPT !.histories[dbg.dc] = Append(@, obj),
                          !.last = Called("dc.inspect", <<obj>>, e)]
    /\ UNCHANGED <<clientVars, exceptDbg, env>>

\* dc.clear() (150-154).
DcClear ==
    /\ dbg.dc # 0
    /\ dbg' = [dbg EXCEPT !.histories[dbg.dc] = <<>>,
                          !.last = Called("dc.clear", <<>>, Effect(<<"clear", "log">>, FALSE, <<>>))]
    /\ UNCHANGED <<clientVars, exceptDbg, env>>

\* dc.history_log() (156-159).
DcHistoryLog ==
    /\ dbg.dc # 0
    /\ dbg' = [dbg EXCEPT !.last = Called("dc.history_log", <<>>,
                                          Effect(<<"log">>, FALSE, dbg.histories[dbg.dc]))]
    /\ UNCHANGED <<clientVars, exceptDbg, env>>

\* dc.env() (162-169) and dc.help() (172-190) only print.
DcPrint(op) ==
    /\ dbg.dc # 0
    /\ dbg' = [dbg EXCEPT !.last = Called(op, <<>>, Effect(IF op = "dc.env" THEN <<"table">>
                                                     ELSE <<"log">>, FALSE, <<>>))]
    /\ UNCHANGED <<clientVars, exceptDbg, env>>

\* The module may be loaded on the server or in a browser, under any
\* value of NEXT_PUBLIC_APP_ENV.
InitDebug ==
    /\ InitWindow
    /\ localStorage = EmptyStorage
    /\ cookieJar = EmptyStorage
    /\ page = NoPage
    /\ hook = NoHook
    /\ env \in AppEnvs
    /\ dbg = NoDbg
    /\ panel = NoPanel
    /\ cfg = NoCfg

NextDebug ==
    \/ LoadDebugger
    \/ \E v \in Values : DebugCall("inspect", <<v>>, inspect(config(env).features.debugMode, v))
    \/ \E c \in BOOLEAN : DebugCall("when", <<>>, when(config(env).features.debugMode, c))
    \/ DebugCall("time", <<>>, time(config(env).features.debugMode))
    \/ DebugCall("timeEnd", <<>>, timeEnd(config(env).features.debugMode))
    \/ \E v \in Values : DebugCall("breakpoint", <<v>>, breakpoint(config(env).features.debugMode, v))
    \/ DebugCall("info", <<>>, info(config(env).features.verboseLogging))
    \/ DebugCall("warn", <<>>, warn)
    \/ DebugCall("error", <<>>, error)
    \/ \E b \in BOOLEAN : DebugCall("api.request", <<>>, apiRequest(config(env).features.debugMode, b))
    \/ \E v \in Values : DebugCall("api.response", <<v>>, apiResponse(config(env).features.debugMode, v))
    \/ DebugCall("render", <<>>, render(config(env).features.debugMode))
    \/ \E m \in BOOLEAN : DebugCall("memory", <<>>, memory(config(env).features.debugMode, m))
    \/ GetInstance
    \/ \E v \in Values : DcInspect(v)
    \/ DcClear
    \/ DcHistoryLog
    \/ \E op \in {"dc.env", "dc.help"} : DcPrint(op)

SpecDebug == InitDebug /\ [][NextDebug]_vars

\* ------------------------------------------------ DebugPanel, effect by effect
\* Panel k mounts in debug mode and its effect runs (lines 34-40).
Mount(k) ==
    /\ config(env).features.debugMode
    /\ panel.status[k] = "new"
    /\ \A j \in PanelIds : j < k => panel.status[j] # "new"
    /\ panel' = [panel EXCEPT !.status[k] = "mounted",
                              !.original[k] = panel.log,
                              !.log = Wrapper(k)]
    /\ UNCHANGED <<clientVars, exceptPanel, env>>

\* Panel k unmounts and the cleanup of its effect runs (lines 42-44).
Unmount(k) ==
    /\ panel.status[k] = "mounted"
    /\ panel' = [panel EXCEPT !.status[k] = "unmounted",
                              !.log = panel.original[k]]
    /\ UNCHANGED <<clientVars, exceptPanel, env>>

\* Some code calls console.log(...).
ConsoleLog ==
    /\ panel' = [panel EXCEPT !.last = [called |-> TRUE,
                                        native |-> NativeCalls(panel, panel.log),
                                        received |-> Receivers(panel, panel.log),
                                        mounted |-> Mounted(panel)]]
    /\ UNCHANGED <<clientVars, exceptPanel, env>>

\* The panels exist in a browser, in development.
InitPanel ==
    /\ InitWindow
    /\ isClient
    /\ localStorage = EmptyStorage
    /\ cookieJar = EmptyStorage
    /\ page = NoPage
    /\ hook = NoHook
    /\ env = Some("development")
    /\ dbg = NoDbg
    /\ panel = NoPanel
    /\ cfg = NoCfg

NextPanel ==
    \/ \E k \in PanelIds : Mount(k)
    \/ \E k \in PanelIds : Unmount(k)
    \/ ConsoleLog

SpecPanel == InitPanel /\ [][NextPanel]_vars

\* ------------------------------------------------ config.ts, as a module
\* The module is evaluated: config is built from process.env (lines 2-37)
\* and, in debug mode, the configuration is logged twice (64-84).
LoadConfig ==
    /\ ~cfg.loaded
    /\ LET c == config(env) IN
       cfg' = [cfg EXCEPT !.loaded = TRUE, !.value = c, !.apiUrl = apiUrl(cfg.apiUrlVar),
                          !.level = "load",
                          !.console = IF c.features.debugMode
                                      THEN logger(c, "debug") \o logger(c, "debug")
                                      ELSE <<>>]
    /\ UNCHANGED <<clientVars, exceptCfg, env>>

\* A layout renders the EnvironmentBanner.
RenderBanner ==
    /\ cfg.loaded
    /\ cfg' = [cfg EXCEPT !.rendered = TRUE,
                          !.banner = EnvironmentBanner(cfg.value, cfg.apiUrl)]
    /\ UNCHANGED <<clientVars, exceptCfg, env>>

\* Some code calls logger.debug / info / warn / error.
LoggerCall(level) ==
    /\ cfg.loaded
    /\ cfg' = [cfg EXCEPT !.level = level, !.console = logger(cfg.value, level)]
    /\ UNCHANGED <<clientVars, exceptCfg, env>>

\* The build fixes the environment variables: any value of
\* NEXT_PUBLIC_APP_ENV and of NEXT_PUBLIC_API_URL, or none.
InitEnv ==
    /\ InitWindow
    /\ localStorage = EmptyStorage
    /\ cookieJar = EmptyStorage
    /\ page = NoPage
    /\ hook = NoHook
    /\ env \in AppEnvs
    /\ dbg = NoDbg
    /\ panel = NoPanel
    /\ cfg \in {[NoCfg EXCEPT !.apiUrlVar = u] : u \in ApiUrls}

NextEnv ==
    \/ LoadConfig
    \/ RenderBanner
    \/ \E l \in LogLevels : LoggerCall(l)

SpecEnv == InitEnv /\ [][NextEnv]_vars

\* ------------------------------------------- the 401 handler, statement by
\* statement.  The rejected handler is one synchronous function: its
\* statements run in the order of the text (config.ts 114, 118, 121) and no
\* other callback of the page runs before it returns.
TeardownSteps_NavigateFirst == <<"navigate", "clear", "reject">>

TeardownSteps == <<"clear", "navigate", "reject">>

\* Positions inside the handler: after its first, after its second statement.
HandlerPcs == <<"ran1", "ran2">>

\* The number of the statement the handler of call r executes next.
StepOf(r) ==
    CASE r.pc = "arrived" -> 1
      [] r.pc = HandlerPcs[1] -> 2
      [] r.pc = HandlerPcs[2] -> 3

\* Some handler has started and not yet returned.
Running == \E i \in Ids : req[i].pc \in {HandlerPcs[1], HandlerPcs[2]}

\* The handler of call i, which has received a 401, executes its next
\* statement.
TeardownStep(i) ==
    /\ req[i].pc \in {"arrived", HandlerPcs[1], HandlerPcs[2]}
    /\ req[i].pc = "arrived" => ~Running
    /\ IsUnauthorized(req[i].raw)
    /\ LET k == StepOf(req[i])
           stmt == TeardownSteps[k]
           nav == stmt = "navigate" /\ RejectedNavigates(req[i].raw, isClient)
       IN /\ localStorage' = IF stmt = "clear"
                             THEN RejectedStorage(req[i].raw, localStorage)
                             ELSE localStorage
          /\ location' = IF nav THEN SIGN_IN ELSE location
          /\ redirects' = IF nav THEN redirects + 1 ELSE redirects
          /\ ended' = IF stmt = "clear" THEN ended \cup {"401"} ELSE ended
          /\ unauthorized' = IF k = 1 THEN unauthorized + 1 ELSE unauthorized
          /\ req' = [req EXCEPT ![i] = IF k = Len(TeardownSteps)
                                       THEN Settled(req[i])
                                       ELSE [req[i] EXCEPT !.pc = HandlerPcs[k]]]
    /\ UNCHANGED <<isClient, guard, cookieJar, aside>>

\* Every other outcome is handled as before, in one step.
HandleOther(i) ==
    /\ ~IsUnauthorized(req[i].raw)
    /\ ResponseInterceptor(i)

\* A callback of the page starts only when no handler is running.
Turn(A) == ~Running /\ A

NextTeardown ==
    \/ \E i \in Ids : TeardownStep(i)
    \/ \E i \in Ids, c \in Callers : Turn(Call(i, c))
    \/ \E i \in Ids : Turn(RequestInterceptor(i))
    \/ \E i \in Ids : Turn(Transport(i))
    \/ \E i \in Ids : Turn(HandleOther(i))
    \/ \E i \in Ids : Turn(CallerContinue(i))
    \/ Turn(Logout)

SpecTeardown == Init /\ [][NextTeardown]_vars

\* The middleware decides a page request in this step.
Decides == guard' # guard

\* C11: in every state, when localStorage holds no token the user is
\* unauthenticated for both components: a request intercepted now gets no
\* credential, and a page request for a protected path made now (after a
\* teardown or a logout, say) is redirected to '/sign_in'.
C11_AbsentTokenIsUnauthenticated ==
    [][getItem(localStorage, "token") = None
       => /\ \A i \in Ids :
              Intercepts(i) => "Authorization" \notin DOMAIN req'[i].headers
          /\ (Decides /\ StartsWith(guard'.pathname, DASHBOARD))
             => guard'.response = NextResponseRedirect(SIGN_IN)]_vars

\* C20: the page request that follows SignIn.handleSubmit's navigation to
\* '/dashboard' (the response's token is stored, the browser was told to go
\* to '/dashboard') is let through by the guard.
C20_SignInReachesDashboard ==
    [][(Decides /\ location = DASHBOARD /\ guard'.pathname = DASHBOARD
          /\ getItem(localStorage, "token") = Some("abc"))
       => guard'.response = NextResponseNext]_vars

\* C12: every 401 that is handled, whatever was handled before it and in
\* whatever order, leaves localStorage without a token and the location at
\* /sign_in; a 401 handled when that is already so changes neither.
C12_RepeatedUnauthorizedIsIdempotent ==
    [][\A i \in Ids :
         (Handles(i) /\ req[i].raw.status = 401)
         => /\ localStorage' = removeItem(localStorage, "token")
            /\ location' = SIGN_IN
            /\ (getItem(localStorage, "token") = None /\ location = SIGN_IN)
               => (localStorage' = localStorage /\ location' = location)]_vars

\* Two calls were in flight together, both got a 401 and both were handled.
C12_Witness ==
    /\ \A i \in {1, 2} : /\ req[i].pc = "settled"
                         /\ req[i].how = "rejected"
                         /\ req[i].value.status = 401
    /\ getItem(localStorage, "token") = None
    /\ location = SIGN_IN

\* C13: for any two calls whose outcomes are waiting to be handled,
\* localStorage after both have completed is the same whichever of the two
\* is handled first.
C13_StoreIndependentOfHandlingOrder ==
    \A i, j \in Ids :
        (i # j /\ req[i].pc \in {"arrived", "settled"}
                /\ req[j].pc \in {"arrived", "settled"})
        => RemainingStorage(req[j], RemainingStorage(req[i], localStorage))
           = RemainingStorage(req[i], RemainingStorage(req[j], localStorage))

\* How far a call has come: a call only ever moves forward.
PcRank(pc) ==
    CASE pc = "idle" -> 0 [] pc = "called" -> 1 [] pc = "sent" -> 2
      [] pc = "arrived" -> 3 [] pc = "settled" -> 4 [] pc = "done" -> 5

\* C14: a call is handed to the transport at most once and, once its outcome
\* has arrived, is never issued again; and the interceptors of the api
\* client change localStorage only by removing the token when they handle a
\* 401, never by writing a value.
C14_NoRetryNoRefresh ==
    [][\A i \in Ids :
         /\ PcRank(req'[i].pc) >= PcRank(req[i].pc)
         /\ (req'[i].pc = "sent" /\ req[i].pc # "sent") => req[i].pc \in {"idle", "called"}
         /\ (Intercepts(i) \/ Handles(i))
            => \/ localStorage' = localStorage
               \/ /\ req[i].raw.status = 401
                  /\ localStorage' = removeItem(localStorage, "token")]_vars

\* A call has failed with a 401, the token it carried is gone, nothing was
\* issued in its place and nothing was written back.
C14_Witness ==
    /\ req[1].pc = "settled"
    /\ req[1].how = "rejected"
    /\ req[1].raw.status = 401
    /\ req[2].pc = "idle"
    /\ unauthorized = 1
    /\ localStorage = EmptyStorage

\* C15: inside the handler of a 401 the token is removed by the first
\* statement, the navigation to /sign_in is issued by the second and the
\* caller's promise is rejected only by the third; and from the handler's
\* first statement to its last no other call takes a step, so none sees the
\* navigation issued with the token still stored.
C15_ClearThenNavigateThenReject ==
    [][\A i \in Ids :
         /\ req'[i].pc = HandlerPcs[1]
            => /\ getItem(localStorage', "token") = None
               /\ redirects' = redirects
               /\ req'[i].how = "pending"
         /\ req'[i].pc = HandlerPcs[2]
            => /\ getItem(localStorage', "token") = None
               /\ location' = SIGN_IN
               /\ redirects' = redirects + 1
               /\ req'[i].how = "pending"
         /\ (req[i].pc = HandlerPcs[2] /\ req'[i].pc = "settled")
            => /\ req'[i].how = "rejected"
               /\ UNCHANGED <<localStorage, location, redirects>>
         /\ req[i].pc \in {HandlerPcs[1], HandlerPcs[2]}
            => \A j \in Ids \ {i} : req'[j] = req[j]]_vars

\* The handler of one call has removed a token and issued the navigation and
\* has not yet rejected, while the outcome of another call waits its turn.
C15_Witness ==
    \E i, j \in Ids :
        /\ i # j
        /\ req[i].pc = HandlerPcs[2]
        /\ req[j].pc = "arrived"
        /\ location = SIGN_IN
        /\ getItem(localStorage, "token") = None

\* The code after the caller's `await` runs in this step.
Continues(i) == req[i].pc = "settled" /\ req'[i].pc = "done"

\* C16: the continuation of a sign-in call that resolved stores the token
\* of its response under 'token' (the string 'undefined' when the response
\* has none: setItem converts its argument); the continuation of a sign-in
\* call that was rejected leaves localStorage as it was; and no other step
\* ever puts a value under 'token'.
C16_TokenWrittenOnSignInSuccessOnly ==
    [][/\ \A i \in Ids :
            (Continues(i) /\ req[i].caller \in SignInCallers)
            => /\ req[i].how = "resolved"
                  => /\ \A t \in Tokens :
                          req[i].value.token = Some(t)
                          => getItem(localStorage', "token") = Some(t)
                     /\ req[i].value.token = None
                          => getItem(localStorage', "token") = Some("undefined")
               /\ req[i].how = "rejected" => localStorage' = localStorage
       /\ (getItem(localStorage', "token") # None
             /\ getItem(localStorage', "token") # getItem(localStorage, "token"))
          => \E i \in Ids : /\ Continues(i)
                             /\ req[i].caller \in SignInCallers
                             /\ req[i].how = "resolved"]_vars

\* A 401 had emptied localStorage; a sign-in then succeeded and its token is
\* stored, while another sign-in call has been rejected and changed nothing.
C16_Witness ==
    /\ unauthorized = 1
    /\ getItem(localStorage, "token") = Some("abc")
    /\ ended = {}
    /\ \E i \in Ids : /\ req[i].pc = "settled"
                       /\ req[i].caller \in SignInCallers
                       /\ req[i].how = "rejected"

\* handleLogout runs in this step: no call moves, the session is marked as
\* ended by a logout.
LogsOut == req' = req /\ "logout" \in ended'

\* C17: a logout leaves localStorage without a token and the location at
\* /sign_in; and from a logout until a sign-in next stores a token, every
\* request the request interceptor passes goes out without an Authorization
\* header.
C17_LogoutEndsTheSession ==
    [][/\ LogsOut => /\ getItem(localStorage', "token") = None
                     /\ location' = SIGN_IN
       /\ \A i \in Ids :
            (Intercepts(i) /\ "logout" \in ended)
            => "Authorization" \notin DOMAIN req'[i].headers]_vars

\* A request sent before the logout still carries the token; one issued
\* after it has gone out without a header.
C17_Witness ==
    /\ "logout" \in ended
    /\ location = SIGN_IN
    /\ req[1].pc = "sent"
    /\ DOMAIN req[1].headers = {"Authorization"}
    /\ req[2].pc = "sent"
    /\ req[2].caller = "component"
    /\ req[2].headers = NoHeaders

\* C18: from the handling of a 401 until a sign-in next stores a token,
\* every request the request interceptor passes goes out without an
\* Authorization header; and a stored token only ever disappears in the
\* handling of a 401 or in a logout, never ahead of a failed request.
C18_ValidUntilFirstUnauthorized ==
    [][/\ \A i \in Ids :
            (Intercepts(i) /\ "401" \in ended)
            => "Authorization" \notin DOMAIN req'[i].headers
       /\ (getItem(localStorage, "token") # None /\ getItem(localStorage', "token") = None)
          => \/ LogsOut
             \/ \E i \in Ids : Handles(i) /\ req[i].raw.status = 401]_vars

\* The first call carried the token and got a 401; the call issued after it
\* has gone out without a header.
C18_Witness ==
    /\ ended = {"401"}
    /\ unauthorized = 1
    /\ req[1].pc = "settled"
    /\ req[1].raw.status = 401
    /\ req[2].pc = "sent"
    /\ req[2].caller = "component"
    /\ req[2].headers = NoHeaders

\* C19: when the login request of a sign-in entry point is rejected with a
\* 401, settling it issues no navigation: the location and the number of
\* navigations issued stay as they were.
C19_LoginFailureStaysLocal ==
    [][\A i \in Ids :
         (/\ req[i].pc # "settled"
          /\ req'[i].pc = "settled"
          /\ req'[i].caller \in SignInCallers
          /\ req'[i].raw.status = 401)
         => UNCHANGED <<location, redirects>>]_vars

\* C21: when DashboardPage has finished with a request that had no 'token'
\* cookie, or whose profile fetch the backend answered with 401, what the
\* framework got is a redirect to /sign_in; and the error view is the
\* outcome only of a failure other than a 401.
C21_UnauthorizedPageRedirects ==
    page.pc = "done"
    => /\ ("token" \notin DOMAIN page.cookies \/ page.status = Some(401))
          => page.outcome = Redirected(SIGN_IN)
       /\ page.outcome = View("error") => page.status # Some(401)

\* A call of signIn starts, or settles with the given outcome, in this step.
Starts(c) == hook.calls[c].pc = "idle" /\ hook'.calls[c].pc = "awaiting"
Settles(c) == hook.calls[c].pc = "awaiting" /\ hook'.calls[c].pc = "settled"

\* What C22 says of a step of call c other than that loading stays true
\* while it is awaited: a call that settles leaves loading false; a call
\* that starts leaves the error empty; a call resolves to
\* {success: true, data} with the data of its response, or to
\* {success: false, error} with the server's message, 'Login failed' where
\* it has none, and that is then the hook's error too.
SettlingAndResult(c) ==
    /\ Settles(c) => ~hook'.loading
    /\ Starts(c) => hook'.error = ""
    /\ Settles(c) =>
         LET o == hook'.calls[c].outcome
             r == hook'.calls[c].result
         IN IF o.ok
            THEN r.success /\ r.data = Some(o) /\ hook'.data = Some(o)
            ELSE /\ ~r.success
                 /\ r.data = None
                 /\ r.error = IF Truthy(o.message) THEN o.message[1] ELSE "Login failed"
                 /\ hook'.error = r.error

\* C22: loading is true as long as a call of signIn has started and not
\* settled, and false after a call has settled; the error is cleared when a
\* call starts; every call resolves to {success: true, data} or to
\* {success: false, error} with the server's message or 'Login failed'.
C22_SignInHookContract ==
    [][\A c \in CallIds :
         /\ hook'.calls[c].pc = "awaiting" => hook'.loading
         /\ SettlingAndResult(c)]_vars

\* C23: outside debug mode the last call of any of the development-only
\* utilities has called no console method and executed no `debugger`
\* statement, and window has neither dc nor debug; in both modes
\* debug.inspect has returned the value it was given.
C23_DebugUtilitiesDevelopmentOnly ==
    /\ ~config(env).features.debugMode
       => /\ dbg.last.op \in DevOnly => (dbg.last.console = <<>> /\ ~dbg.last.paused)
          /\ dbg.globals = {}
    /\ dbg.last.op = "inspect" => dbg.last.ret = dbg.last.arg

\* In production, in a browser, debug.breakpoint was called with an object.
C23_Witness ==
    /\ env = Some("production")
    /\ isClient
    /\ dbg.loaded
    /\ dbg.last.op = "breakpoint"
    /\ dbg.last.arg = <<[type |-> "object", id |-> 1]>>
    /\ dbg.last.console = <<>>

\* The call named op is made in this step.
Calls(op) == dbg'.last.op = op /\ dbg' # dbg

\* The history of the DebugConsole the caller holds.
History(d) == d.histories[d.dc]

\* C24: getInstance constructs a DebugConsole once and returns that object
\* ever after; inspect appends its argument to the history, clear empties
\* it, history_log returns it as it is, and no other call touches it: so
\* history_log returns the objects inspected since the last clear, in order.
C24_SingleInstanceAndHistory ==
    [][/\ Calls("getInstance")
          => /\ dbg'.last.inst = dbg'.instance[1]
             /\ dbg.instance # None => dbg'.last.inst = dbg.instance[1]
             /\ Len(dbg'.histories) = 1
       /\ dbg.instance # None => dbg'.instance = dbg.instance
       /\ dbg.dc # 0
          => /\ dbg'.dc = dbg.dc
             /\ History(dbg') =
                  IF Calls("dc.inspect") THEN Append(History(dbg), dbg'.last.arg[1])
                  ELSE IF Calls("dc.clear") THEN <<>>
                  ELSE History(dbg)
             /\ Calls("dc.history_log") => dbg'.last.ret = History(dbg)]_vars

\* Two values were inspected after a clear and history_log has returned
\* them in the order of the calls.
C24_Witness ==
    /\ dbg.last.op = "dc.history_log"
    /\ dbg.last.ret = <<[type |-> "string", id |-> 2], [type |-> "object", id |-> 1]>>
    /\ History(dbg) = dbg.last.ret

\* C25: on every request the matcher admits, the path starts with
\* '/dashboard', so the middleware's answer depends on the cookie alone:
\* proceed with a non-empty 'token' cookie, redirect to /sign_in without.
C25_MatcherWithinPrefix ==
    (guard.handled /\ guard.matched)
    => /\ StartsWith(guard.pathname, DASHBOARD)
       /\ guard.response = IF Truthy(CookieValue(guard.cookies))
                           THEN NextResponseNext
                           ELSE NextResponseRedirect(SIGN_IN)

\* The matcher admitted '/dashboard/a/b'; the request had a cookie and
\* proceeded.
C25_Witness ==
    /\ guard.handled
    /\ guard.matched
    /\ guard.pathname = DASHBOARD \o <<"/", "a", "/", "b">>
    /\ CookieValue(guard.cookies) = Some("abc")
    /\ guard.response = NextResponseNext

\* C26: the guard redirects nowhere but to /sign_in, and so does the
\* client; a request for /sign_in is never redirected, with or without a
\* cookie; so the request that follows a redirect of the guard is not
\* redirected again.
C26_RedirectChainsEndAtSignIn ==
    [][/\ (Decides /\ guard'.response.type = "redirect")
          => guard'.response.location = SIGN_IN
       /\ redirects' # redirects => location' = SIGN_IN
       /\ (Decides /\ guard'.pathname = SIGN_IN) => guard'.response = NextResponseNext
       /\ (Decides /\ guard.handled /\ guard.response.type = "redirect"
                   /\ guard'.pathname = guard.response.location
                   /\ guard'.cookies = guard.cookies)
          => guard'.response.type # "redirect"]_vars

\* The client had sent the browser to /sign_in after a 401, and the request
\* for that page, which the matcher does not admit, proceeded.
C26_Witness ==
    /\ unauthorized = 1
    /\ redirects = 1
    /\ location = SIGN_IN
    /\ guard.handled
    /\ guard.pathname = location
    /\ ~guard.matched
    /\ guard.response = NextResponseNext

\* C27: the request interceptor adds the Authorization header exactly when
\* the string stored under 'token' is not empty: with the empty string
\* stored, as with nothing stored, the headers stay as they were; with any
\* other string s stored, whatever it is, the header is 'Bearer ' + s.
C27_HeaderIffNonEmptyToken ==
    [][\A i \in Ids :
         (Intercepts(i) /\ StorageDefined)
         => LET stored == getItem(localStorage, "token") IN
            /\ "Authorization" \in DOMAIN req'[i].headers
                 <=> (stored # None /\ stored # Some(""))
            /\ (stored = None \/ stored = Some("")) => req'[i].headers = req[i].headers
            /\ \A s \in Tokens \cup {"undefined"} :
                 (stored = Some(s) /\ s # "")
                 => req'[i].headers["Authorization"] = "Bearer " \o s]_vars

\* A request of a component went out without a header while the store
\* holds the empty string.
C27_Witness ==
    \E i \in Ids :
        /\ req[i].pc = "sent"
        /\ req[i].caller = "component"
        /\ req[i].headers = NoHeaders
        /\ getItem(localStorage, "token") = Some("")
        /\ unauthorized = 0

\* C28: whenever no DebugPanel is mounted, console.log is the function the
\* runtime installed; and a console.log call made while a panel is mounted
\* has reached that function exactly once.
C28_InterceptionFullyUndone ==
    /\ Mounted(panel) = {} => panel.log = NativeLog
    /\ (panel.last.called /\ panel.last.mounted # {}) => panel.last.native = 1

\* C29: in the config the module exports, isDev, isStaging and isProd say
\* what env says, at most one of them is true, and the feature flags
\* follow them: debugMode = isDev, analytics = isProd, betaFeatures =
\* isStaging, verboseLogging = not isProd.
C29_FlagsFollowEnvironment ==
    cfg.loaded
    => LET c == cfg.value IN
       /\ c.isDev <=> c.env = "development"
       /\ c.isStaging <=> c.env = "staging"
       /\ c.isProd <=> c.env = "production"
       /\ Cardinality({f \in {"isDev", "isStaging", "isProd"} : c[f]}) <= 1
       /\ c.features.debugMode = c.isDev
       /\ c.features.analytics = c.isProd
       /\ c.features.betaFeatures = c.isStaging
       /\ c.features.verboseLogging = ~c.isProd

====
